---- MODULE Spec2Model ----
(***************************************************************************)
(* El-Shamela processor: categorization of scrapped parts into books and   *)
(* chapters.  Two passes are modelled:                                     *)
(*   - the heuristic pass of src/dev/processor.js (lookahead of one part), *)
(*   - the navigation-bar pass of src/unnamed/part_000 (getChapterBook).   *)
(* JavaScript values are modelled with their type, because the code uses   *)
(* truthiness, === and numeric comparison on values read from JSON files   *)
(* and from regular-expression matches.                                    *)
(***************************************************************************)
EXTENDS Integers, Sequences, FiniteSets, TLC

VARIABLES
    strategy,         \* "heuristic", "reference", "lookup", "normalize", "scrap"
    N,                \* files.length: number of files of the source directory
    idType,           \* JSON type of the 'id' attribute of the scrapped parts
    input,            \* the source directory: parts 1..Len(input) as found on disk
    out,              \* the output directory: slot -> record written
    log,              \* file-system accesses of the pass, in order
    i,                \* loop variable of the pass
    pc,               \* where the program is: "build", "pass", "call", "done", ...
    cause,            \* exception that ended the pass, "" when none
    nextPart,         \* processor.js: cached lookahead part
    book,             \* processor.js: current book
    chapter,          \* processor.js: current chapter
    firstPart,        \* processor.js: first part of a many-part definition
    nav,              \* part_000: '.treeview > li' entries of the navigation bar
    bi,               \* part_000: index i of processBook into the entries
    searchReference,  \* part_000: book/chapter tree used by getChapterBook
    partNo,           \* last argument handed to getChapterBook
    located,          \* last result of getChapterBook
    content,          \* readPart alone: 'content' of the part file to read
    runs,             \* readPart alone: what each call made of the content
    startFrom,        \* scrapper.js: part id to start from
    partId,           \* scrapper.js: argument of the current getBookPart call
    targetDir,        \* scrapper.js: files of source/{bookId}, name -> body
    net               \* scrapper.js: requests sent and files written, in order

vars == <<strategy, N, idType, input, out, log, i, pc, cause, nextPart, book,
          chapter, firstPart, nav, bi, searchReference, partNo, located,
          content, runs, startFrom, partId, targetDir, net>>

heuristicVars == <<nextPart, book, chapter, firstPart>>
referenceVars == <<nav, bi, searchReference, partNo, located>>
textVars == <<content, runs>>
scrapVars == <<startFrom, partId, targetDir, net>>

(***************************************************************************)
(* Bounds of the model.                                                    *)
(***************************************************************************)
MaxParts == 4       \* heuristic pass: at most this many files
MaxRefParts == 3    \* navigation-bar pass: at most this many files
MaxPage == 4        \* lookup alone: pages of the navigation bar are 1..MaxPage
MaxLen == 4         \* readPart alone: at most this many characters of content
MaxRuns == 2        \* readPart alone: content is processed at most this often
MaxStart == 3       \* scrapper alone: the part id argument is at most this
MaxFetched == 3     \* scrapper alone: at most this many parts are answered with 200

(***************************************************************************)
(* JavaScript values.  A value is a record [t, v]: t is its type, v the    *)
(* number it holds (for a string of digits: the number the digits spell;   *)
(* for any other string: a token identifying the string).                  *)
(***************************************************************************)
Undef == [t |-> "undefined", v |-> 0]
Null == [t |-> "null", v |-> 0]
Num(n) == [t |-> "number", v |-> n]
Str(n) == [t |-> "string", v |-> n]

\* ToBoolean: undefined, null and the number 0 are falsy; strings of digits
\* and caption strings are never empty, hence truthy.
Truthy(x) == \/ x.t = "string"
             \/ x.t = "number" /\ x.v # 0

\* The === operator: same type and same value.
StrictEq(a, b) == a.t = b.t /\ a.v = b.v

\* parseInt of a number or of a string of digits.
ParseInt(x) == x.v

\* a > b and a < b for numbers and strings of digits (ToNumber on both sides).
Greater(a, b) == a.v > b.v
Less(a, b) == a.v < b.v

(***************************************************************************)
(* Parts.  The content of a part is identified by its id.  {} is the       *)
(* object without attributes.                                              *)
(***************************************************************************)
EmptyObj == [id |-> Undef, hadith |-> Undef, caption_id |-> Undef]

Hadiths == {Null, Num(0), Num(-1), Num(5)}
Captions == {Undef, Str(1), Str(2)}

\* The parts file k of the source directory may hold.
Parts(k, types, captions) ==
    {[id |-> [t |-> ty, v |-> k], hadith |-> h, caption_id |-> c] :
        ty \in types, h \in Hadiths, c \in captions}

\* An attribute that is not set / that is set to x.
Absent == <<>>
Attached(x) == <<x>>

\* JSON.stringify(part) as written to the output directory.
OutRec(part, b, c) == [part |-> part, book |-> b, chapter |-> c]

\* Entries of the access log: every readFileSync / writeFileSync call of the
\* pass; ok is FALSE for a call that threw (no such file), rec is the record
\* a write stores.
ReadIn(k, ok) == [op |-> "readIn", slot |-> k, ok |-> ok, rec |-> Absent]
ReadOut(k, ok) == [op |-> "readOut", slot |-> k, ok |-> ok, rec |-> Absent]
Write(k, rec) == [op |-> "write", slot |-> k, ok |-> TRUE, rec |-> Attached(rec)]

\* fs.writeFileSync(partPath, contents) on the output directory.
WriteFile(store, k, rec) == [s \in DOMAIN store \cup {k} |-> IF s = k THEN rec ELSE store[s]]

\* The files readPart(k) may find in the source directory: none when k is
\* not a file of the directory (readFileSync throws ENOENT).
FilesAt(k) ==
    IF k > N THEN {}
    ELSE IF k <= Len(input) THEN {input[k]}
    ELSE Parts(k, {idType}, IF strategy = "heuristic" THEN Captions ELSE {Undef})

\* The known part of the source directory d once file k holding p has been read.
DiskAfter(d, k, p) == IF k <= Len(d) THEN d ELSE Append(d, p)
Disk(k, p) == DiskAfter(input, k, p)

(***************************************************************************)
(* Heuristic pass: src/dev/processor.js, callback of fs.readdir.           *)
(***************************************************************************)
\* "if (part.hadith)": the part is a hadith.
HeuristicIsHadith(part) == Truthy(part.hadith)

\* "firstPart.id ? firstPart : part".
FirstTracked(fp, part) == IF Truthy(fp.id) THEN fp ELSE part

\* "nextPart.id ? nextPart : readPart(i)": the parts the iteration may work on.
CurrentParts == IF Truthy(nextPart.id) THEN {nextPart} ELSE FilesAt(i)

\* The accesses of a pass that ignores the cache: "readPart(i)" every time.
CurrentReadsUncached == <<ReadIn(i, TRUE)>>

\* The accesses of "nextPart.id ? nextPart : readPart(i)".
CurrentReads == IF Truthy(nextPart.id) THEN <<>> ELSE <<ReadIn(i, TRUE)>>

\* The source directory after "nextPart.id ? nextPart : readPart(i)".
CurrentDisk(part) == IF Truthy(nextPart.id) THEN input ELSE Disk(i, part)

HeuristicRunning == strategy = "heuristic" /\ pc = "pass" /\ i <= N

\* Lines 156-172: the part is a hadith; book and chapter are assigned to it.
HContent ==
    /\ HeuristicRunning
    /\ \E part \in CurrentParts :
        /\ HeuristicIsHadith(part)
        /\ input' = CurrentDisk(part)
        /\ out' = WriteFile(out, i, OutRec(part, Attached(book), Attached(chapter)))
        /\ log' = log \o CurrentReads
                       \o <<Write(i, OutRec(part, Attached(book), Attached(chapter)))>>
    /\ nextPart' = EmptyObj
    /\ firstPart' = EmptyObj
    /\ i' = i + 1
    /\ pc' = IF i + 1 <= N THEN "pass" ELSE "done"
    /\ UNCHANGED <<scrapVars, textVars, strategy, N, idType, cause, book, chapter, referenceVars>>

\* Lines 156-183, 196: the part is not a hadith, the next part is not a hadith
\* either and has the same caption_id.
HHeaderSameCaption ==
    /\ HeuristicRunning
    /\ \E part \in CurrentParts :
        /\ ~HeuristicIsHadith(part)
        /\ \E np \in FilesAt(i + 1) :
            /\ ~HeuristicIsHadith(np)
            /\ StrictEq(np.caption_id, part.caption_id)
            /\ input' = DiskAfter(CurrentDisk(part), i + 1, np)
            /\ nextPart' = np
            /\ firstPart' = part
            /\ chapter' = FirstTracked(part, part)
        /\ out' = WriteFile(out, i, OutRec(part, Absent, Absent))
        /\ log' = log \o CurrentReads \o <<Write(i, OutRec(part, Absent, Absent)),
                                        ReadIn(i + 1, TRUE)>>
    /\ i' = i + 1
    /\ UNCHANGED <<scrapVars, textVars, strategy, N, idType, pc, cause, book, referenceVars>>

\* Lines 156-190: the part is not a hadith, the next part is not a hadith
\* either and has another caption_id: this is a book.
HHeaderBook ==
    /\ HeuristicRunning
    /\ \E part \in CurrentParts :
        /\ ~HeuristicIsHadith(part)
        /\ \E np \in FilesAt(i + 1) :
            /\ ~HeuristicIsHadith(np)
            /\ ~StrictEq(np.caption_id, part.caption_id)
            /\ input' = DiskAfter(CurrentDisk(part), i + 1, np)
            /\ nextPart' = np
        /\ book' = FirstTracked(firstPart, part)
        /\ out' = WriteFile(out, i, OutRec(part, Absent, Absent))
        /\ log' = log \o CurrentReads \o <<Write(i, OutRec(part, Absent, Absent)),
                                        ReadIn(i + 1, TRUE)>>
    /\ i' = i + 1
    /\ UNCHANGED <<scrapVars, textVars, strategy, N, idType, pc, cause, chapter, firstPart, referenceVars>>

\* Lines 156-181, 196: the part is not a hadith and the next part is a hadith:
\* this is a chapter.
HHeaderChapter ==
    /\ HeuristicRunning
    /\ \E part \in CurrentParts :
        /\ ~HeuristicIsHadith(part)
        /\ \E np \in FilesAt(i + 1) :
            /\ HeuristicIsHadith(np)
            /\ input' = DiskAfter(CurrentDisk(part), i + 1, np)
            /\ nextPart' = np
        /\ chapter' = FirstTracked(firstPart, part)
        /\ out' = WriteFile(out, i, OutRec(part, Absent, Absent))
        /\ log' = log \o CurrentReads \o <<Write(i, OutRec(part, Absent, Absent)),
                                        ReadIn(i + 1, TRUE)>>
    /\ i' = i + 1
    /\ UNCHANGED <<scrapVars, textVars, strategy, N, idType, pc, cause, book, firstPart, referenceVars>>

\* Lines 156-178 for the last file: the part is not a hadith and
\* readPart(i+1) throws, there is no file i+1.
HHeaderNoNext ==
    /\ HeuristicRunning
    /\ FilesAt(i + 1) = {}
    /\ \E part \in CurrentParts :
        /\ ~HeuristicIsHadith(part)
        /\ input' = CurrentDisk(part)
        /\ out' = WriteFile(out, i, OutRec(part, Absent, Absent))
        /\ log' = log \o CurrentReads \o <<Write(i, OutRec(part, Absent, Absent)),
                                        ReadIn(i + 1, FALSE)>>
    /\ nextPart' = EmptyObj
    /\ pc' = "crashed"
    /\ cause' = "ENOENT"
    /\ UNCHANGED <<scrapVars, textVars, strategy, N, idType, i, book, chapter, firstPart, referenceVars>>

HeuristicStep ==
    \/ HContent
    \/ HHeaderSameCaption
    \/ HHeaderBook
    \/ HHeaderChapter
    \/ HHeaderNoNext

(***************************************************************************)
(* Navigation bar and search reference: src/unnamed/part_000.              *)
(***************************************************************************)
Min(S) == CHOOSE x \in S : \A y \in S : x <= y

RECURSIVE Ascending(_)
Ascending(S) == IF S = {} THEN <<>> ELSE <<Min(S)>> \o Ascending(S \ {Min(S)})

\* Text of the link of the book / chapter that starts at page b.
BookName(b) == <<"book", b>>
ChapterName(c) == <<"chapter", c>>

\* The chapter pages of C that lie in the book starting at page b, the books
\* starting at the pages B.
ChaptersOf(b, B, C) == {c \in C : c >= b /\ \A b2 \in B : b2 > b => c < b2}

\* One '.treeview > li' entry: the page of its link (a string of digits, from
\* the match of /(\d+)$/), its text, whether its span has an onclick, and the
\* 'li > a' links the lazytree request answers for it.
NavEntry(b, B, C) ==
    LET cs == Ascending(ChaptersOf(b, B, C))
    IN [page |-> Str(b), name |-> BookName(b), onclick |-> cs # <<>>,
        chapters |-> [j \in 1..Len(cs) |-> [name |-> ChapterName(cs[j]), page |-> Str(cs[j])]]]

\* The navigation bars over the pages 1..P: books in reading order, the
\* chapters of a book in reading order, a book without chapters has no onclick.
NavBar(B, C) == LET bs == Ascending(B) IN [k \in 1..Len(bs) |-> NavEntry(bs[k], B, C)]

NavBars(P) == {NavBar(B, C) : B \in SUBSET (1..P), C \in SUBSET (1..P)}

\* sortCallback with the two results exchanged: sorts ascending by page.
sortCallbackAscending(a, b) ==
    IF ParseInt(a.page) < ParseInt(b.page) THEN -1
    ELSE IF ParseInt(a.page) > ParseInt(b.page) THEN 1
    ELSE 0

\* sortCallback(a, b): sorts chapters/books descending by page.
sortCallback(a, b) ==
    IF ParseInt(a.page) < ParseInt(b.page) THEN 1
    ELSE IF ParseInt(a.page) > ParseInt(b.page) THEN -1
    ELSE 0

\* Array.prototype.sort(sortCallback), a stable sort: x is put before the
\* first element that sortCallback orders after it.
RECURSIVE InsertSorted(_, _)
InsertSorted(s, x) ==
    IF s = <<>> THEN <<x>>
    ELSE IF sortCallback(Head(s), x) > 0 THEN <<x>> \o s
    ELSE <<Head(s)>> \o InsertSorted(Tail(s), x)

RECURSIVE Sort(_)
Sort(s) ==
    IF s = <<>> THEN <<>>
    ELSE InsertSorted(Sort(SubSeq(s, 1, Len(s) - 1)), s[Len(s)])

\* The search reference without the sorting of lines 305-308.
Unsorted(ref) == ref

\* Lines 305-308: sort the books, then the chapters of every book.
SortReference(ref) ==
    LET books == Sort(ref)
    IN [k \in 1..Len(books) |->
           [books[k] EXCEPT !.chapters = Sort(books[k].chapters)]]

\* getChapterBook(books, partNo): books.some(...) visits the books in order
\* and stops at the first one for which the callback returns true; the
\* callback returns undefined for a book with page > partNo and else the
\* result of curBook.chapters.some(...), true at the first chapter with
\* page <= partNo.
FirstChapter(chapters, p) ==
    LET hits == {j \in 1..Len(chapters) : ~Greater(chapters[j].page, p)}
    IN IF hits = {} THEN 0 ELSE Min(hits)

FirstBook(books, p) ==
    LET hits == {k \in 1..Len(books) :
                    /\ ~Greater(books[k].page, p)
                    /\ FirstChapter(books[k].chapters, p) # 0}
    IN IF hits = {} THEN 0 ELSE Min(hits)

NotFound == [book |-> Null, chapter |-> Null]

getChapterBook(books, part) ==
    LET p == Num(ParseInt(part))
        k == FirstBook(books, p)
    IN IF k = 0 THEN NotFound
       ELSE [book |-> books[k],
             chapter |-> books[k].chapters[FirstChapter(books[k].chapters, p)]]

BuildRunning == pc = "build" /\ bi <= Len(nav)

\* Lines 314-320: a book without chapters (no onclick) is left out.
ProcessBookSkip ==
    /\ BuildRunning
    /\ ~nav[bi].onclick
    /\ bi' = bi + 1
    /\ UNCHANGED <<scrapVars, textVars, strategy, N, idType, input, out, log, i, pc, cause, heuristicVars,
                   nav, searchReference, partNo, located>>

\* Lines 322-339: the chapters of the book are requested and the book is
\* pushed with them.
ProcessBookPush ==
    /\ BuildRunning
    /\ nav[bi].onclick
    /\ searchReference' = Append(searchReference,
            [page |-> nav[bi].page, name |-> nav[bi].name, chapters |-> nav[bi].chapters])
    /\ bi' = bi + 1
    /\ UNCHANGED <<scrapVars, textVars, strategy, N, idType, input, out, log, i, pc, cause, heuristicVars,
                   nav, partNo, located>>

\* Lines 322-327: the request for the chapters of the book fails and the
\* process exits with status 1.
ProcessBookRequestError ==
    /\ BuildRunning
    /\ nav[bi].onclick
    /\ pc' = "crashed"
    /\ cause' = "request"
    /\ UNCHANGED <<scrapVars, textVars, strategy, N, idType, input, out, log, i, heuristicVars, referenceVars>>

\* Lines 322-329: the request for the chapters of the book is answered with
\* another status than 200: nothing is pushed, processBook is not called
\* again and the process ends with nothing left to do.
ProcessBookBadStatus ==
    /\ BuildRunning
    /\ nav[bi].onclick
    /\ pc' = "stopped"
    /\ UNCHANGED <<scrapVars, textVars, strategy, N, idType, input, out, log, i, cause, heuristicVars,
                   referenceVars>>

\* Lines 302-312: after the last book the reference is sorted and
\* initCategorization starts the pass.
ProcessBookEnd ==
    /\ pc = "build"
    /\ bi > Len(nav)
    /\ searchReference' = SortReference(searchReference)
    /\ pc' = IF strategy = "lookup" THEN "lookup" ELSE "pass"
    /\ UNCHANGED <<scrapVars, textVars, strategy, N, idType, input, out, log, i, cause, heuristicVars,
                   nav, bi, partNo, located>>

BuildStep ==
    \/ ProcessBookSkip
    \/ ProcessBookPush
    \/ ProcessBookRequestError
    \/ ProcessBookBadStatus
    \/ ProcessBookEnd

(***************************************************************************)
(* Navigation-bar pass: src/unnamed/part_000, initCategorization.          *)
(***************************************************************************)
\* "!part.hadith || (part.hadith && part.hadith < 0)": the part is no hadith.
ReferenceIsHeader(part) ==
    \/ ~Truthy(part.hadith)
    \/ Truthy(part.hadith) /\ Less(part.hadith, Num(0))

\* The output file readPart(page, true) opens: outputDirAbs/page.
SlotOf(page) == ParseInt(page)

\* A copy of the part alone, as read from the source directory, in place of
\* the record of the output directory.
SnapshotOfPart(store, page, name) ==
    [file |-> OutRec(store[SlotOf(page)].part, Absent, Absent), sourceName |-> name]

\* readPart(page, true) followed by ".sourceName = name": a copy of the
\* record stored in the output directory, with sourceName set on the copy.
Snapshot(store, page, name) == [file |-> store[SlotOf(page)], sourceName |-> name]

\* "partCatInfo.chapter.page <= part.id" in place of the === test.
ChapterIsPartLoose(info, part) == ~Greater(info.chapter.page, part.id)

\* "partCatInfo.chapter.page === part.id".
ChapterIsPart(info, part) == StrictEq(info.chapter.page, part.id)

ReferenceRunning == strategy = "reference" /\ pc = "pass" /\ i <= N

AfterPart == IF i + 1 <= N THEN "pass" ELSE "done"

\* Lines 254-264: the part is no hadith and is written as it is.
RHeader ==
    /\ ReferenceRunning
    /\ \E part \in FilesAt(i) :
        /\ ReferenceIsHeader(part)
        /\ input' = Disk(i, part)
        /\ out' = WriteFile(out, i, OutRec(part, Absent, Absent))
        /\ log' = log \o <<ReadIn(i, TRUE), Write(i, OutRec(part, Absent, Absent))>>
    /\ i' = i + 1
    /\ pc' = AfterPart
    /\ UNCHANGED <<scrapVars, textVars, strategy, N, idType, cause, heuristicVars, referenceVars>>

\* RNotFound with the part written before the lookup, as lines 261-262 do for
\* a part that is no hadith.
RNotFoundAfterWrite ==
    /\ ReferenceRunning
    /\ \E part \in FilesAt(i) :
        /\ ~ReferenceIsHeader(part)
        /\ getChapterBook(searchReference, part.id) = NotFound
        /\ input' = Disk(i, part)
        /\ partNo' = part.id
        /\ located' = NotFound
        /\ out' = WriteFile(out, i, OutRec(part, Absent, Absent))
        /\ log' = log \o <<ReadIn(i, TRUE), Write(i, OutRec(part, Absent, Absent))>>
    /\ pc' = "crashed"
    /\ cause' = "TypeError"
    /\ UNCHANGED <<scrapVars, textVars, strategy, N, idType, i, heuristicVars, nav, bi, searchReference>>

\* Lines 266-267: getChapterBook returns {book: null, chapter: null} and
\* "partCatInfo.book.page" throws a TypeError.
RNotFound ==
    /\ ReferenceRunning
    /\ \E part \in FilesAt(i) :
        /\ ~ReferenceIsHeader(part)
        /\ getChapterBook(searchReference, part.id) = NotFound
        /\ input' = Disk(i, part)
        /\ partNo' = part.id
        /\ located' = NotFound
        /\ log' = log \o <<ReadIn(i, TRUE)>>
    /\ pc' = "crashed"
    /\ cause' = "TypeError"
    /\ UNCHANGED <<scrapVars, textVars, strategy, N, idType, out, i, heuristicVars, nav, bi, searchReference>>

\* Line 267: readPart(partCatInfo.book.page, true) throws, the output
\* directory has no such file.
RBookMissing ==
    /\ ReferenceRunning
    /\ \E part \in FilesAt(i) :
        LET info == getChapterBook(searchReference, part.id)
        IN /\ ~ReferenceIsHeader(part)
           /\ info # NotFound
           /\ SlotOf(info.book.page) \notin DOMAIN out
           /\ input' = Disk(i, part)
           /\ partNo' = part.id
           /\ located' = info
           /\ log' = log \o <<ReadIn(i, TRUE), ReadOut(SlotOf(info.book.page), FALSE)>>
    /\ pc' = "crashed"
    /\ cause' = "ENOENT"
    /\ UNCHANGED <<scrapVars, textVars, strategy, N, idType, out, i, heuristicVars, nav, bi, searchReference>>

\* Lines 266-268, 280: the book is read, then readPart(partCatInfo.chapter.page,
\* true) throws, the output directory has no such file.
RChapterMissing ==
    /\ ReferenceRunning
    /\ \E part \in FilesAt(i) :
        LET info == getChapterBook(searchReference, part.id)
        IN /\ ~ReferenceIsHeader(part)
           /\ info # NotFound
           /\ SlotOf(info.book.page) \in DOMAIN out
           /\ ~ChapterIsPart(info, part)
           /\ SlotOf(info.chapter.page) \notin DOMAIN out
           /\ input' = Disk(i, part)
           /\ partNo' = part.id
           /\ located' = info
           /\ log' = log \o <<ReadIn(i, TRUE), ReadOut(SlotOf(info.book.page), TRUE),
                              ReadOut(SlotOf(info.chapter.page), FALSE)>>
    /\ pc' = "crashed"
    /\ cause' = "ENOENT"
    /\ UNCHANGED <<scrapVars, textVars, strategy, N, idType, out, i, heuristicVars, nav, bi, searchReference>>

\* Lines 266-268, 279-284: book and chapter are read from the output
\* directory and the part is written with them.
RContent ==
    /\ ReferenceRunning
    /\ \E part \in FilesAt(i) :
        LET info == getChapterBook(searchReference, part.id)
        IN /\ ~ReferenceIsHeader(part)
           /\ info # NotFound
           /\ SlotOf(info.book.page) \in DOMAIN out
           /\ ~ChapterIsPart(info, part)
           /\ SlotOf(info.chapter.page) \in DOMAIN out
           /\ LET b == Snapshot(out, info.book.page, info.book.name)
                  c == Snapshot(out, info.chapter.page, info.chapter.name)
                  rec == OutRec(part, Attached(b), Attached(c))
              IN /\ out' = WriteFile(out, i, rec)
                 /\ log' = log \o <<ReadIn(i, TRUE), ReadOut(SlotOf(info.book.page), TRUE),
                                    ReadOut(SlotOf(info.chapter.page), TRUE), Write(i, rec)>>
           /\ input' = Disk(i, part)
           /\ partNo' = part.id
           /\ located' = info
    /\ i' = i + 1
    /\ pc' = AfterPart
    /\ UNCHANGED <<scrapVars, textVars, strategy, N, idType, cause, heuristicVars, nav, bi, searchReference>>

\* Lines 266-278: chapter and hadith are in the same part; the part is
\* written with its book, read back as its own chapter and written again.
RContentSamePart ==
    /\ ReferenceRunning
    /\ \E part \in FilesAt(i) :
        LET info == getChapterBook(searchReference, part.id)
        IN /\ ~ReferenceIsHeader(part)
           /\ info # NotFound
           /\ SlotOf(info.book.page) \in DOMAIN out
           /\ ChapterIsPart(info, part)
           /\ LET b == Snapshot(out, info.book.page, info.book.name)
                  first == OutRec(part, Attached(b), Absent)
                  out1 == WriteFile(out, i, first)
                  c == Snapshot(out1, info.chapter.page, info.chapter.name)
                  rec == OutRec(part, Attached(b), Attached(c))
              IN /\ out' = WriteFile(out1, i, rec)
                 /\ log' = log \o <<ReadIn(i, TRUE), ReadOut(SlotOf(info.book.page), TRUE),
                                    Write(i, first),
                                    ReadOut(SlotOf(info.chapter.page), TRUE), Write(i, rec)>>
           /\ input' = Disk(i, part)
           /\ partNo' = part.id
           /\ located' = info
    /\ i' = i + 1
    /\ pc' = AfterPart
    /\ UNCHANGED <<scrapVars, textVars, strategy, N, idType, cause, heuristicVars, nav, bi, searchReference>>

ReferenceStep ==
    \/ RHeader
    \/ RNotFound
    \/ RBookMissing
    \/ RChapterMissing
    \/ RContent
    \/ RContentSamePart

(***************************************************************************)
(* getChapterBook alone, on the sorted reference of a navigation bar.      *)
(***************************************************************************)
\* The part ids getChapterBook is asked for: numbers and strings of digits.
Queries == {[t |-> ty, v |-> q] : ty \in {"number", "string"}, q \in (0..(MaxPage + 1)) \cup {15}}

\* The tree books=[{page:1,chapters:[{page:2},{page:10}]},{page:20,chapters:[{page:21}]}].
TwoBooksNav == NavBar({1, 20}, {2, 10, 21})

Locate ==
    /\ pc = "lookup"
    /\ \E p \in Queries :
        /\ partNo' = p
        /\ located' = getChapterBook(searchReference, p)
    /\ UNCHANGED <<scrapVars, textVars, strategy, N, idType, input, out, log, i, pc, cause, heuristicVars,
                   nav, bi, searchReference>>

(***************************************************************************)
(* Content of a part: readPart of src/dev/processor.js, processPart of     *)
(* src/unnamed/part_000.  A text is a sequence of characters; the entity   *)
(* &quot; is one element of the sequence, its six characters only matter   *)
(* together.                                                               *)
(***************************************************************************)
IsDigit(c) == c \in {"0", "1", "2", "3", "4", "5", "6", "7", "8", "9"}

\* The characters of tashkeel.txt, joined without the line ends.
Tashkeel == {"fatha", "shadda"}

\* The characters the enumerated contents are made of.
Alphabet == {"<", ">", "&quot;", "3", " ", "-", "a", "fatha"}

Texts == UNION {[1..n -> Alphabet] : n \in 0..MaxLen}

\* "\d+": the last digit of the longest run of digits that starts at p.
DigitsEnd(s, p) ==
    LET ends == {r \in p..Len(s) : \A j \in p..r : IsDigit(s[j])}
    IN CHOOSE r \in ends : \A x \in ends : x <= r

\* /<(?:.|\n)*?>| &quot;|\d+ - /: the last character of the match that starts
\* at p, 0 when there is none: a '<' up to the nearest '>' behind it; a space
\* and the entity behind it; digits followed by space, hyphen, space.
MatchEnd(s, p) ==
    IF s[p] = "<"
    THEN LET qs == {q \in (p + 1)..Len(s) : s[q] = ">"}
         IN IF qs = {} THEN 0 ELSE Min(qs)
    ELSE IF s[p] = " "
    THEN IF p + 1 <= Len(s) /\ s[p + 1] = "&quot;" THEN p + 1 ELSE 0
    ELSE IF IsDigit(s[p])
    THEN LET r == DigitsEnd(s, p)
         IN IF r + 3 <= Len(s) /\ s[r + 1] = " " /\ s[r + 2] = "-" /\ s[r + 3] = " "
            THEN r + 3
            ELSE 0
    ELSE 0

\* The empty string as second argument of replace.
ReplacementEmpty == <<>>

\* The second argument of replace: ' '.
Replacement == <<" ">>

\* content.replace(regex, ' ') with the g flag: the text is scanned from the
\* left, a match is replaced and the scan goes on behind it, any other
\* character is kept.
RECURSIVE SanitizeFrom(_, _)
SanitizeFrom(s, p) ==
    IF p > Len(s) THEN <<>>
    ELSE IF MatchEnd(s, p) = 0 THEN <<s[p]>> \o SanitizeFrom(s, p + 1)
    ELSE Replacement \o SanitizeFrom(s, MatchEnd(s, p) + 1)

Sanitize(s) == SanitizeFrom(s, 1)

\* replace(tashkeelRegex, '') without the g flag: the first match only.
StripFirstTashkeel(s) ==
    LET hits == {p \in 1..Len(s) : s[p] \in Tashkeel}
    IN IF hits = {} THEN s
       ELSE SubSeq(s, 1, Min(hits) - 1) \o SubSeq(s, Min(hits) + 1, Len(s))

\* content.replace(new RegExp(`[${tashkeel}]`, 'gm'), '').
StripTashkeel(s) == SelectSeq(s, LAMBDA c : c \notin Tashkeel)

\* readPart / processPart on a part file with this content: the part is
\* returned with the sanitized content and noTashkeelContent.
readPartContent ==
    /\ strategy = "normalize"
    /\ pc = "pass"
    /\ runs' = Append(runs, [raw |-> content,
                             content |-> Sanitize(content),
                             noTashkeelContent |-> StripTashkeel(Sanitize(content))])
    /\ pc' = "done"
    /\ UNCHANGED <<scrapVars, content, strategy, N, idType, input, out, log, i, cause, heuristicVars,
                   referenceVars>>

\* The processor is started again with the output directory of the last run
\* as its source directory: the part file now holds the sanitized content.
RunOnOutput ==
    /\ strategy = "normalize"
    /\ pc = "done"
    /\ Len(runs) < MaxRuns
    /\ content' = runs[Len(runs)].content
    /\ pc' = "pass"
    /\ UNCHANGED <<scrapVars, runs, strategy, N, idType, input, out, log, i, cause, heuristicVars,
                   referenceVars>>

(***************************************************************************)
(* Scrapper: src/dev/scrapper.js, getBookPart.                             *)
(***************************************************************************)
\* "process.argv[3] ? process.argv[3] : 1": the argument, a string of
\* digits, when there is one, else the number 1.
StartFrom(arg) == IF arg # Undef /\ Truthy(arg) THEN arg ELSE Num(1)

\* `${targetDirAbs}/${partId}`: the name of the part file is the digits of
\* partId, for a number as for a string of digits; a name is identified by
\* the number its digits spell.
FileName(x) == ParseInt(x)

\* "partId + 1" in place of "++partId": a string is extended by the digit 1.
IncrementByPlus(x) == IF x.t = "string" THEN Str(10 * x.v + 1) ELSE Num(x.v + 1)

\* "++partId": ToNumber, then one more; the result is a number.
Increment(x) == Num(ParseInt(x) + 1)

\* punycode.toUnicode(content): a label in punycode is decoded, any other
\* string is returned as it is.
ToUnicode(c) == IF c = "xn--mgbh0fb" THEN "decoded" ELSE c

\* The bodies of a response with status 200 that carry a 'content' string.
Bodies == {[content |-> "xn--mgbh0fb"], [content |-> "plain"]}

\* Entries of net: a request.get for a part, a writeFileSync of a part file.
Requested(x) == [op |-> "get", part |-> ParseInt(x), body |-> <<>>]
Stored(x, body) == [op |-> "write", part |-> FileName(x), body |-> <<body>>]

\* Lines 107-109: getBookPart(partId) sends the request for the part.
getBookPart ==
    /\ strategy = "scrap"
    /\ pc = "call"
    /\ net' = Append(net, Requested(partId))
    /\ pc' = "waiting"
    /\ UNCHANGED <<startFrom, partId, targetDir, textVars, strategy, N, idType, input, out,
                   log, i, cause, heuristicVars, referenceVars>>

\* Lines 110-113: the request failed; the process exits with status 1.
ResponseError ==
    /\ strategy = "scrap"
    /\ pc = "waiting"
    /\ pc' = "exited"
    /\ cause' = "request"
    /\ UNCHANGED <<scrapVars, textVars, strategy, N, idType, input, out, log, i,
                   heuristicVars, referenceVars>>

\* Line 115: a status other than 200; the callback returns, nothing is
\* written and no request follows.
ResponseNot200 ==
    /\ strategy = "scrap"
    /\ pc = "waiting"
    /\ pc' = "stopped"
    /\ UNCHANGED <<scrapVars, textVars, strategy, N, idType, input, out, log, i, cause,
                   heuristicVars, referenceVars>>

\* Lines 115-119: status 200 with a body that has no 'content' string;
\* punycode.toUnicode(undefined) throws and the process dies.
ResponseNoContent ==
    /\ strategy = "scrap"
    /\ pc = "waiting"
    /\ pc' = "crashed"
    /\ cause' = "TypeError"
    /\ UNCHANGED <<scrapVars, textVars, strategy, N, idType, input, out, log, i,
                   heuristicVars, referenceVars>>

\* Lines 115-123: status 200; the body is written to the part file with its
\* content decoded, and getBookPart is called for the next part.
ResponseOk ==
    /\ strategy = "scrap"
    /\ pc = "waiting"
    /\ Cardinality({n \in 1..Len(net) : net[n].op = "write"}) < MaxFetched
    /\ \E body \in Bodies :
        LET file == [body EXCEPT !.content = ToUnicode(body.content)]
        IN /\ targetDir' = WriteFile(targetDir, FileName(partId), file)
           /\ net' = Append(net, Stored(partId, file))
    /\ partId' = Increment(partId)
    /\ pc' = "call"
    /\ UNCHANGED <<startFrom, textVars, strategy, N, idType, input, out, log, i, cause,
                   heuristicVars, referenceVars>>

(***************************************************************************)
(* Specifications.                                                         *)
(***************************************************************************)
\* The stream [1:HEADER, 2:HEADER, 3:CONTENT(hadith=5), 4:HEADER, 5:HEADER,
\* 6:CONTENT(hadith=1)], no part with a caption_id.
SixParts ==
    [k \in 1..6 |-> [id |-> Num(k),
                     hadith |-> IF k = 3 THEN Num(5) ELSE IF k = 6 THEN Num(1) ELSE Null,
                     caption_id |-> Undef]]

\* The record an earlier run left in slot k of the output directory.
Leftover(k) ==
    OutRec([id |-> [t |-> idType, v |-> k], hadith |-> Null, caption_id |-> Undef],
           Absent, Absent)

InitCommon ==
    /\ log = <<>>
    /\ i = 1
    /\ cause = ""
    /\ nextPart = EmptyObj
    /\ book = EmptyObj
    /\ chapter = EmptyObj
    /\ firstPart = EmptyObj
    /\ bi = 1
    /\ searchReference = <<>>
    /\ partNo = Undef
    /\ located = NotFound
    /\ content = <<>>
    /\ runs = <<>>
    /\ startFrom = Undef
    /\ partId = Undef
    /\ targetDir = <<>>
    /\ net = <<>>

\* processor.js on a directory of N files, or on the six files of SixParts.
InitHeuristic ==
    /\ strategy = "heuristic"
    /\ idType = "number"
    /\ \/ N \in 1..MaxParts /\ input = <<>>
       \/ N = Len(SixParts) /\ input = SixParts
    /\ out = <<>>
    /\ pc = "pass"
    /\ nav = <<>>
    /\ InitCommon

\* part_000 on a directory of N files and the navigation bar of the book; the
\* output directory is new (createDirIfNotExist made it) or holds the
\* records of an earlier run.
InitReference ==
    /\ strategy = "reference"
    /\ idType \in {"number", "string"}
    /\ N \in 1..MaxRefParts
    /\ input = <<>>
    /\ out \in {<<>>, [k \in 1..N |-> Leftover(k)]}
    /\ pc = "build"
    /\ nav \in NavBars(N)
    /\ InitCommon

Init == InitHeuristic \/ InitReference

Next ==
    \/ HeuristicStep
    \/ BuildStep
    \/ ReferenceStep

Spec == Init /\ [][Next]_vars

\* getChapterBook on the reference built from a navigation bar.
InitLookup ==
    /\ strategy = "lookup"
    /\ idType = "number"
    /\ N = 0
    /\ input = <<>>
    /\ out = <<>>
    /\ pc = "build"
    /\ nav \in NavBars(MaxPage) \cup {TwoBooksNav}
    /\ InitCommon

NextLookup ==
    \/ BuildStep
    \/ Locate

SpecLookup == InitLookup /\ [][NextLookup]_vars

\* The content <b>3 - text &quot;here</b>.
ExampleContent ==
    <<"<", "b", ">", "3", " ", "-", " ", "t", "e", "x", "t", " ", "&quot;",
      "h", "e", "r", "e", "<", "/", "b", ">">>

\* readPart on one part file whose content is a text of at most MaxLen
\* characters, or the example content.
InitNorm ==
    /\ strategy = "normalize"
    /\ idType = "number"
    /\ N = 1
    /\ input = <<>>
    /\ out = <<>>
    /\ pc = "pass"
    /\ nav = <<>>
    /\ log = <<>>
    /\ i = 1
    /\ cause = ""
    /\ nextPart = EmptyObj
    /\ book = EmptyObj
    /\ chapter = EmptyObj
    /\ firstPart = EmptyObj
    /\ bi = 1
    /\ searchReference = <<>>
    /\ partNo = Undef
    /\ located = NotFound
    /\ content \in Texts \cup {ExampleContent}
    /\ runs = <<>>
    /\ startFrom = Undef
    /\ partId = Undef
    /\ targetDir = <<>>
    /\ net = <<>>

NextNorm ==
    \/ readPartContent
    \/ RunOnOutput

SpecNorm == InitNorm /\ [][NextNorm]_vars

\* The body a part file holds from an earlier run of the scrapper.
OldFile == [content |-> "old"]

\* scrapper.js started with a book id and with or without a part id; the
\* directory source/{bookId} is new or holds part 2 of an earlier run.
InitScrap ==
    /\ strategy = "scrap"
    /\ idType = "number"
    /\ N = 0
    /\ input = <<>>
    /\ out = <<>>
    /\ pc = "call"
    /\ nav = <<>>
    /\ log = <<>>
    /\ i = 1
    /\ cause = ""
    /\ nextPart = EmptyObj
    /\ book = EmptyObj
    /\ chapter = EmptyObj
    /\ firstPart = EmptyObj
    /\ bi = 1
    /\ searchReference = <<>>
    /\ partNo = Undef
    /\ located = NotFound
    /\ content = <<>>
    /\ runs = <<>>
    /\ \E arg \in {Undef} \cup {Str(k) : k \in 1..MaxStart} :
        /\ startFrom = StartFrom(arg)
        /\ partId = StartFrom(arg)
    /\ targetDir \in {<<>>, WriteFile(<<>>, 2, OldFile)}
    /\ net = <<>>

NextScrap ==
    \/ getBookPart
    \/ ResponseError
    \/ ResponseNot200
    \/ ResponseNoContent
    \/ ResponseOk

SpecScrap == InitScrap /\ [][NextScrap]_vars

(***************************************************************************)
(* Properties.                                                             *)
(***************************************************************************)
\* The 'hadith' marker is present and strictly greater than zero.
Positive(h) == h.t = "number" /\ h.v > 0

\* The slots the pass has written, and the number of writes to slot k.
WriteIndexes(k) == {n \in 1..Len(log) : log[n].op = "write" /\ log[n].slot = k}
Written == {log[n].slot : n \in {m \in 1..Len(log) : log[m].op = "write"}}

\* No part read so far carries a negative marker.
NoNegativeMarker == \A k \in 1..Len(input) : ~Less(input[k].hadith, Num(0))

\* Part k is a header for processor.js and carries a marker that is not negative.
PlainHeader(k) == ~Truthy(input[k].hadith)

\* C1: in both passes a part is written with book and chapter attached if and
\* only if its 'hadith' marker is present and strictly greater than zero; a
\* part whose marker is null, absent, zero or negative is written with no
\* book and no chapter.
C1_ContentIffPositiveMarker ==
    \A k \in Written :
        /\ Positive(out[k].part.hadith) =>
               out[k].book # Absent /\ out[k].chapter # Absent
        /\ ~Positive(out[k].part.hadith) =>
               out[k].book = Absent /\ out[k].chapter = Absent

\* C2: a pass that completes has written every slot 1..N and no other slot,
\* in increasing order, each slot once; a slot written twice is that of a
\* hadith of the navigation-bar pass whose resolved chapter page is its own id.
C2_EverySlotWrittenOnce ==
    pc = "done" =>
        /\ Written = 1..N
        /\ \A m, n \in 1..Len(log) :
               (m < n /\ log[m].op = "write" /\ log[n].op = "write")
               => log[m].slot <= log[n].slot
        /\ \A k \in 1..N :
               \/ Cardinality(WriteIndexes(k)) = 1
               \/ /\ Cardinality(WriteIndexes(k)) = 2
                  /\ strategy = "reference"
                  /\ ~ReferenceIsHeader(input[k])
                  /\ SlotOf(getChapterBook(searchReference, input[k].id).chapter.page) = k

\* C2 witness: a completed navigation-bar pass over several parts that wrote
\* one slot twice.
C2_Witness ==
    /\ pc = "done"
    /\ strategy = "reference"
    /\ N >= 2
    /\ \E k \in 1..N : Cardinality(WriteIndexes(k)) = 2

\* C3: heuristic pass on the six parts [header, header, hadith, header,
\* header, hadith] without caption_id: part 3 is written with book = part 1
\* and chapter = part 2, part 6 with book = part 4 and chapter = part 5.
C3_SixPartsScenario ==
    (strategy = "heuristic" /\ input = SixParts /\ pc = "done") =>
        /\ out[3].book = Attached(SixParts[1])
        /\ out[3].chapter = Attached(SixParts[2])
        /\ out[6].book = Attached(SixParts[4])
        /\ out[6].chapter = Attached(SixParts[5])

\* The first part of the run of consecutive headers with the caption_id of
\* header b that ends at b.
RECURSIVE RunStart(_)
RunStart(b) ==
    IF /\ b > 1
       /\ PlainHeader(b - 1)
       /\ StrictEq(input[b - 1].caption_id, input[b].caption_id)
    THEN RunStart(b - 1)
    ELSE b

\* C4: heuristic pass: a run of two or more consecutive headers with the
\* same caption_id resolves to the first part of the run: a hadith that
\* follows the run is written with that first part as its chapter, and when a
\* header of another group follows the run the current book is that first part.
C4_FirstPartOfGroup ==
    (strategy = "heuristic" /\ NoNegativeMarker) =>
        /\ \A k \in Written :
               (/\ k >= 3
                /\ HeuristicIsHadith(input[k])
                /\ PlainHeader(k - 1)
                /\ input[k - 1].caption_id.t = "string"
                /\ RunStart(k - 1) < k - 1)
               => out[k].chapter = Attached(input[RunStart(k - 1)])
        /\ (/\ pc = "pass"
            /\ i >= 3
            /\ Truthy(nextPart.id)
            /\ ~HeuristicIsHadith(nextPart)
            /\ PlainHeader(i - 1)
            /\ input[i - 1].caption_id.t = "string"
            /\ ~StrictEq(nextPart.caption_id, input[i - 1].caption_id)
            /\ RunStart(i - 1) < i - 1)
           => book = input[RunStart(i - 1)]

\* C5: heuristic pass: when header h2 is directly followed by a hadith and
\* directly preceded by a header h1 of another group, the hadith is written
\* with book = h1 and chapter = h2, whatever parts came before h1.
C5_BookThenChapter ==
    (strategy = "heuristic" /\ NoNegativeMarker) =>
        \A k \in Written :
            (/\ k >= 3
             /\ HeuristicIsHadith(input[k])
             /\ PlainHeader(k - 1)
             /\ PlainHeader(k - 2)
             /\ ~StrictEq(input[k - 1].caption_id, input[k - 2].caption_id))
            => /\ out[k].book = Attached(input[k - 2])
               /\ out[k].chapter = Attached(input[k - 1])

\* getChapterBook has been asked for partNo on the sorted reference.
Asked == pc = "lookup" /\ partNo # Undef

PageOf(x) == ParseInt(x.page)

\* C6: for every book of the reference and every id p with
\* book.page <= p < page of the next book, getChapterBook(books, p) returns
\* that book, also when p lies before the page of the book's first chapter.
C6_EnclosingBook ==
    Asked =>
        \A k \in 1..Len(searchReference) :
            LET b == searchReference[k]
            IN (/\ PageOf(b) <= ParseInt(partNo)
                /\ \A k2 \in 1..Len(searchReference) :
                       PageOf(searchReference[k2]) > PageOf(b)
                       => ParseInt(partNo) < PageOf(searchReference[k2]))
               => located.book = b

\* C7: a result of getChapterBook that is not null holds a book of the
\* reference and the chapter of that book with the greatest page <= partNo;
\* on the tree of TwoBooksNav, partNo 15 gives book page 1 and chapter page 10.
C7_GreatestChapter ==
    (Asked /\ located # NotFound) =>
        /\ \E k \in 1..Len(searchReference) : searchReference[k] = located.book
        /\ \E j \in 1..Len(located.book.chapters) :
               located.book.chapters[j] = located.chapter
        /\ PageOf(located.chapter) <= ParseInt(partNo)
        /\ \A j \in 1..Len(located.book.chapters) :
               PageOf(located.book.chapters[j]) <= ParseInt(partNo)
               => PageOf(located.book.chapters[j]) <= PageOf(located.chapter)
        /\ (nav = TwoBooksNav /\ ParseInt(partNo) = 15)
               => PageOf(located.book) = 1 /\ PageOf(located.chapter) = 10

\* C7 witness: partNo 15 has been looked up on the tree of TwoBooksNav.
C7_Witness ==
    /\ Asked
    /\ nav = TwoBooksNav
    /\ partNo = Num(15)
    /\ located # NotFound

\* C8: the scan stops at the first book, in descending page order, with
\* page <= partNo: when that book has no chapter with page <= partNo the
\* lookup returns no book and no chapter, and it never returns a book with a
\* smaller page than that book.
C8_ScanStopsAtFirstBook ==
    Asked =>
        LET cands == {k \in 1..Len(searchReference) :
                         PageOf(searchReference[k]) <= ParseInt(partNo)}
        IN cands # {} =>
            LET c == searchReference[Min(cands)]
            IN /\ (\A j \in 1..Len(c.chapters) : PageOf(c.chapters[j]) > ParseInt(partNo))
                      => located = NotFound
               /\ located # NotFound => PageOf(located.book) >= PageOf(c)

\* C9: navigation-bar pass: when getChapterBook finds no book and no chapter
\* for hadith i the pass ends at i: no record is written for i or a later
\* part, and the records written for the parts before i are as written.
C9_AbortWritesNothing ==
    (strategy = "reference" /\ partNo # Undef /\ located = NotFound) =>
        /\ pc = "crashed"
        /\ cause = "TypeError"
        /\ \A n \in 1..Len(log) : log[n].op = "write" => log[n].slot < i
        /\ \A k \in DOMAIN out : k >= i => out[k] = Leftover(k)
        /\ \A k \in 1..(i - 1) :
               /\ k \in DOMAIN out
               /\ \E n \in WriteIndexes(k) :
                      /\ \A m \in WriteIndexes(k) : m <= n
                      /\ log[n].rec = Attached(out[k])

\* C9 witness: the pass ended on a failed lookup after it had written parts.
C9_Witness ==
    /\ strategy = "reference"
    /\ pc = "crashed"
    /\ cause = "TypeError"
    /\ located = NotFound
    /\ i > 1

\* C10: navigation-bar pass: every read of the output record at page p comes
\* after a write of slot p earlier in the same pass, also for a hadith whose
\* resolved book page or chapter page is its own id.
C10_ReadAfterWrite ==
    strategy = "reference" =>
        \A n \in 1..Len(log) :
            log[n].op = "readOut"
            => \E m \in 1..(n - 1) : log[m].op = "write" /\ log[m].slot = log[n].slot

\* The two-element set of log indexes {m, n} with m < n holds the writes of
\* slot k: first the part with its book and no chapter, then the part with
\* its chapter, which is the record left in the slot.
WrittenTwice(k) ==
    \E m, n \in WriteIndexes(k) :
        /\ m < n
        /\ WriteIndexes(k) = {m, n}
        /\ log[m].rec[1].book # Absent
        /\ log[m].rec[1].chapter = Absent
        /\ log[n].rec[1].book = log[m].rec[1].book
        /\ log[n].rec[1].chapter # Absent
        /\ out[k] = log[n].rec[1]

\* C11: navigation-bar pass: a hadith whose resolved chapter page denotes
\* the hadith's own part (the page a string of the navigation bar, the id as
\* parsed from the part file) is written twice, first with its book and no
\* chapter, then with its chapter, the second write replacing the first; any
\* other part is written once.
C11_SamePartWrittenTwice ==
    strategy = "reference" =>
        \A k \in 1..Len(input) :
            IF ReferenceIsHeader(input[k])
            THEN k < i => Cardinality(WriteIndexes(k)) = 1
            ELSE LET info == getChapterBook(searchReference, input[k].id)
                 IN (info # NotFound /\ SlotOf(info.book.page) < k) =>
                        IF SlotOf(info.chapter.page) = k
                        THEN WrittenTwice(k)
                        ELSE Cardinality(WriteIndexes(k)) = 1

\* C12: heading-shape pass: when the last part of the input is a header,
\* the pass writes it like any other header and ends normally with every
\* part written.
C12_TrailingHeaderWritten ==
    (/\ strategy = "heuristic"
     /\ Len(input) = N
     /\ PlainHeader(N)
     /\ N \in Written) =>
        /\ pc = "done"
        /\ Written = 1..N

\* C17: heading-shape pass: a step that writes header i and finds that part
\* i + 1 is a header with the same caption_id only records part i as the
\* tracked first part; book and chapter keep their values.
C17_SameCaptionKeepsBookAndChapter ==
    [][(/\ strategy = "heuristic"
        /\ pc = "pass"
        /\ i' = i + 1
        /\ ~HeuristicIsHadith(out'[i].part)
        /\ Truthy(nextPart'.id)
        /\ ~HeuristicIsHadith(nextPart')
        /\ StrictEq(nextPart'.caption_id, out'[i].part.caption_id)) =>
           (/\ firstPart' = out'[i].part
            /\ book' = book
            /\ chapter' = chapter)]_vars

\* Part p is one of the headers of the run of same-caption headers ending at b.
InRunOf(p, b) == Truthy(p.id) /\ p.id.v \in RunStart(b)..b /\ p = input[p.id.v]

\* C19: heading-shape pass: the tracked first part is only used for a header
\* of its own group: the chapter given to a hadith that follows header k - 1,
\* and the book chosen when a header of another group follows header i - 1,
\* are parts of the run of same-caption headers ending at that header; the
\* book and the chapter of a written hadith are never the same part.
C19_FirstPartOfOwnGroup ==
    (strategy = "heuristic" /\ NoNegativeMarker) =>
        /\ \A k \in Written :
               (k >= 2 /\ HeuristicIsHadith(input[k]) /\ PlainHeader(k - 1)) =>
                   InRunOf(out[k].chapter[1], k - 1)
        /\ (/\ pc = "pass"
            /\ i >= 2
            /\ Truthy(nextPart.id)
            /\ ~HeuristicIsHadith(nextPart)
            /\ PlainHeader(i - 1)
            /\ ~StrictEq(nextPart.caption_id, input[i - 1].caption_id))
           => InRunOf(book, i - 1)
        /\ \A k \in Written :
               (HeuristicIsHadith(input[k]) /\ Truthy(out[k].book[1].id)) =>
                   out[k].book # out[k].chapter

\* The successful reads of input file k in the access log.
ReadIndexes(k) ==
    {n \in 1..Len(log) : log[n].op = "readIn" /\ log[n].slot = k /\ log[n].ok}

\* C18: heading-shape pass: the cache nextPart holds at most the part the
\* next iteration works on, read once when it was cached; no input file is
\* read twice, and when the pass has ended every file 1..N has been read
\* exactly once.
C18_EveryPartReadOnce ==
    strategy = "heuristic" =>
        /\ \A k \in 1..N : Cardinality(ReadIndexes(k)) <= 1
        /\ \A k \in 1..N : k < i => Cardinality(ReadIndexes(k)) = 1
        /\ pc \in {"done", "crashed"} =>
               \A k \in 1..N : Cardinality(ReadIndexes(k)) = 1
        /\ Truthy(nextPart.id) =>
               /\ pc = "pass"
               /\ i <= N
               /\ nextPart = input[i]
               /\ Cardinality(ReadIndexes(i)) = 1
        /\ (pc = "pass" /\ ~Truthy(nextPart.id)) => ReadIndexes(i) = {}

\* C18 witness: a completed pass in which a part was read ahead, directly
\* after the header in front of it was written, and later written itself.
C18_Witness ==
    /\ strategy = "heuristic"
    /\ pc = "done"
    /\ \E n \in 2..Len(log) :
        /\ log[n].op = "readIn"
        /\ log[n].ok
        /\ log[n - 1].op = "write"
        /\ log[n].slot = log[n - 1].slot + 1
        /\ WriteIndexes(log[n].slot) # {}

\* The accesses of the step being taken.
StepAccesses == (Len(log) + 1)..Len(log')

\* The reads of the output directory in the step being taken.
StepReadOuts == {n \in StepAccesses : log'[n].op = "readOut"}

\* The record held by a slot of the output directory when access n of the
\* step being taken happens: the one of the last write of the step to that
\* slot before n, else the one held before the step.
StoredWhenRead(slot, n) ==
    LET ws == {m \in StepAccesses : m < n /\ log'[m].op = "write" /\ log'[m].slot = slot}
    IN IF ws = {}
       THEN out[slot]
       ELSE log'[CHOOSE m \in ws : \A x \in ws : x <= m].rec[1]

\* C20: navigation-bar pass: the book and the chapter attached to a hadith
\* are copies of the records held by the output slots of the resolved book
\* page and chapter page when they are read, with sourceName set to the name
\* the search reference gives the book and the chapter; the step changes no
\* other output slot and not the search reference.
C20_SnapshotsOfStoredRecords ==
    [][(/\ strategy = "reference"
        /\ pc = "pass"
        /\ i' = i + 1
        /\ ~ReferenceIsHeader(out'[i].part)) =>
           LET rec == out'[i]
               info == getChapterBook(searchReference, rec.part.id)
               bookRead == CHOOSE n \in StepReadOuts : \A x \in StepReadOuts : n <= x
               chapterRead == CHOOSE n \in StepReadOuts : \A x \in StepReadOuts : x <= n
           IN /\ Cardinality(StepReadOuts) = 2
              /\ log'[bookRead].slot = SlotOf(info.book.page)
              /\ log'[chapterRead].slot = SlotOf(info.chapter.page)
              /\ rec.book = Attached([file |-> StoredWhenRead(SlotOf(info.book.page), bookRead),
                                      sourceName |-> info.book.name])
              /\ rec.chapter =
                     Attached([file |-> StoredWhenRead(SlotOf(info.chapter.page), chapterRead),
                               sourceName |-> info.chapter.name])
              /\ \A k \in DOMAIN out : k # i => (k \in DOMAIN out' /\ out'[k] = out[k])
              /\ searchReference' = searchReference
              /\ nav' = nav]_vars

\* C20 witness: a hadith has been written with a book and a chapter that are
\* records of other output slots, one of them itself a hadith with a book,
\* and those slots still hold the records without sourceName.
C20_Witness ==
    /\ strategy = "reference"
    /\ pc \in {"pass", "done"}
    /\ \E k \in Written :
        /\ out[k].book # Absent
        /\ out[k].chapter # Absent
        /\ LET info == getChapterBook(searchReference, out[k].part.id)
           IN /\ SlotOf(info.book.page) < k
              /\ SlotOf(info.chapter.page) < k
              /\ out[k].book[1].file = out[SlotOf(info.book.page)]
              /\ out[k].chapter[1].file = out[SlotOf(info.chapter.page)]
              /\ out[k].chapter[1].file.book # Absent
              /\ out[k].book[1].sourceName = info.book.name

\* The categorization pass of part_000 has been started.
Started == strategy = "reference" /\ pc \notin {"build", "stopped"} /\ cause # "request"

\* s is ordered descending by page.
Descending(s) ==
    \A m, n \in 1..Len(s) : m < n => ParseInt(s[m].page) >= ParseInt(s[n].page)

\* The search reference holds the books with an onclick of the navigation
\* bar, each with its chapters, books and chapters descending by page.
Built ==
    /\ bi = Len(nav) + 1
    /\ Len(searchReference) = Cardinality({k \in 1..Len(nav) : nav[k].onclick})
    /\ Descending(searchReference)
    /\ \A k \in 1..Len(nav) :
           nav[k].onclick =>
               \E b \in 1..Len(searchReference) :
                   /\ searchReference[b].page = nav[k].page
                   /\ searchReference[b].name = nav[k].name
                   /\ Len(searchReference[b].chapters) = Len(nav[k].chapters)
                   /\ Descending(searchReference[b].chapters)
                   /\ {searchReference[b].chapters[j] : j \in 1..Len(nav[k].chapters)}
                          = {nav[k].chapters[j] : j \in 1..Len(nav[k].chapters)}

\* C16: navigation-bar pass: the categorization pass starts only when every
\* book of the navigation bar has been processed and the books, and the
\* chapters of every book, are sorted descending by page; once started it is
\* not started again, and from then on the search reference does not change.
C16_BuiltOnceThenReadOnly ==
    [][(strategy = "reference") =>
           /\ (~Started /\ Started') => (pc = "build" /\ i' = 1 /\ log' = <<>> /\ Built')
           /\ Started =>
                  /\ Built
                  /\ Started'
                  /\ i' >= i
                  /\ searchReference' = searchReference
                  /\ nav' = nav
                  /\ bi' = bi]_vars

\* C16 witness: a completed pass over a reference of at least two books, one
\* of them with two chapters, in which a hadith was looked up.
C16_Witness ==
    /\ strategy = "reference"
    /\ pc = "done"
    /\ Len(searchReference) >= 2
    /\ \E b \in 1..Len(searchReference) : Len(searchReference[b].chapters) >= 2
    /\ \E k \in Written : out[k].book # Absent

\* C13: processing content that has been processed before changes nothing:
\* a run on the sanitized content of the run before it returns the same
\* content and the same noTashkeelContent.
C13_SanitizeIdempotent ==
    strategy = "normalize" =>
        \A n \in 2..Len(runs) :
            /\ runs[n].raw = runs[n - 1].content
            /\ runs[n].content = runs[n - 1].content
            /\ runs[n].noTashkeelContent = runs[n - 1].noTashkeelContent

\* Three spaces, text, two spaces, here.
ExampleCleanAsStated ==
    <<" ", " ", " ", "t", "e", "x", "t", " ", " ", "h", "e", "r", "e">>

\* Two spaces, text, one space, here, one space.
ExampleClean ==
    <<" ", " ", "t", "e", "x", "t", " ", "h", "e", "r", "e", " ">>

\* t is a tag, a space with the entity behind it, or digits followed by
\* space, hyphen, space.
IsMatchForm(t) ==
    \/ /\ Len(t) >= 2
       /\ t[1] = "<"
       /\ t[Len(t)] = ">"
       /\ \A j \in 2..(Len(t) - 1) : t[j] # ">"
    \/ t = <<" ", "&quot;">>
    \/ /\ Len(t) >= 4
       /\ SubSeq(t, Len(t) - 2, Len(t)) = <<" ", "-", " ">>
       /\ \A j \in 1..(Len(t) - 3) : IsDigit(t[j])

\* c is a letter or a diacritic.
Plain(c) == ~IsDigit(c) /\ c \notin {"<", ">", "&quot;", " ", "-", "/"}

Marks(s, p) == Cardinality({q \in 1..p : s[q] \in Tashkeel})

\* C15: noTashkeelContent is the sanitized content with exactly the
\* characters of the diacritics set deleted: it holds no diacritic, and every
\* other character of the sanitized content is in it, moved to the left by
\* the number of diacritics in front of it, and nothing else.
C15_StripOnlyRemovesTashkeel ==
    strategy = "normalize" =>
        \A n \in 1..Len(runs) :
            LET clean == runs[n].content
                bare == runs[n].noTashkeelContent
            IN /\ \A p \in 1..Len(bare) : bare[p] \notin Tashkeel
               /\ Len(bare) = Len(clean) - Marks(clean, Len(clean))
               /\ \A p \in 1..Len(clean) :
                      clean[p] \notin Tashkeel => bare[p - Marks(clean, p)] = clean[p]

\* C15 witness: content with two diacritics and other characters, one of
\* them behind a diacritic, has been processed.
C15_Witness ==
    /\ strategy = "normalize"
    /\ runs # <<>>
    /\ Marks(runs[1].content, Len(runs[1].content)) >= 2
    /\ \E p \in 2..Len(runs[1].content) :
           /\ runs[1].content[p] \notin Tashkeel
           /\ runs[1].content[p - 1] \in Tashkeel

\* The part files written by this run of the scrapper.
Fetched == {net[n].part : n \in {m \in 1..Len(net) : net[m].op = "write"}}

\* The scrapper has ended: exit after a failed request, another status than
\* 200, or an exception in the callback.
ScrapEnded == pc \in {"exited", "stopped", "crashed"}

\* net is: request of startFrom, write of startFrom, request of the next
\* part, write of it, and so on; a request that is not yet answered, or was
\* answered without a write, is the last entry.
InOrder ==
    /\ \A n \in 1..Len(net) :
           /\ net[n].part = ParseInt(startFrom) + ((n - 1) \div 2)
           /\ net[n].op = IF n % 2 = 1 THEN "get" ELSE "write"
           /\ net[n].op = "write" =>
                  /\ net[n].part \in DOMAIN targetDir
                  /\ net[n].body = <<targetDir[net[n].part]>>
    /\ Fetched = ParseInt(startFrom)..(ParseInt(startFrom) + (Len(net) \div 2) - 1)
    /\ pc = "call" => Len(net) % 2 = 0 /\ ParseInt(partId) = ParseInt(startFrom) + Len(net) \div 2
    /\ pc # "call" =>
           /\ Len(net) % 2 = 1
           /\ net[Len(net)].part = ParseInt(partId)
           /\ ParseInt(partId) \notin Fetched

\* C21: scrapper: the parts are requested one at a time from startFrom on,
\* part k + 1 only after part k was answered with status 200 and written, so
\* the files written are always startFrom..k without a gap, in increasing
\* order; a response with another status, and a failed request, end the
\* retrieval with the requested part not written and nothing happens after.
C21_PartsFetchedInOrder ==
    [][(strategy = "scrap") =>
           /\ InOrder
           /\ InOrder'
           /\ ~ScrapEnded
           /\ SubSeq(net', 1, Len(net)) = net
           /\ Len(net') <= Len(net) + 1
           /\ startFrom' = startFrom]_vars

\* C21 witness: started with the part id 2 as argument, the scrapper has
\* written two parts and stopped at the answer to the request for the third.
C21_Witness ==
    /\ strategy = "scrap"
    /\ pc = "stopped"
    /\ startFrom = Str(2)
    /\ Fetched = {2, 3}
    /\ net[Len(net)] = Requested(Num(4))
====
